---------------------------- MODULE Spec2Model ----------------------------
(***************************************************************************)
(* Guardrail threshold tuner: MetricsAnalyzer, ThresholdAdjuster and the   *)
(* round loop of GuardrailFeedbackLoop.run.                                *)
(*                                                                         *)
(* Numbers.  Thresholds and steps are Python floats in the source.  Here   *)
(* a threshold or step is an integer count of units of 0.001/Q, so that    *)
(* 0.001 is Q units and round(x, 3) is a real rounding to a multiple of Q. *)
(* Precision, recall, targets and tolerance are integer hundredths.        *)
(* The floats behind decimal operands are binary approximations, so the   *)
(* float a - b differs from the decimal a - b by a tiny amount: in the     *)
(* source's arithmetic 0.9 - 0.88 is 0.020000000000000018, greater than    *)
(* 0.02, while 0.9 - 0.02 is exactly the float 0.88.  A float difference   *)
(* is modelled in half hundredths as 2*(a - b) + Dev(a, b), Dev(a, b) in   *)
(* {-1, 0, 1} being the sign of that deviation, tabulated from the float   *)
(* arithmetic for the operand values the model uses.                       *)
(***************************************************************************)
EXTENDS Integers, Sequences, FiniteSets, TLC

VARIABLES
    cfg,              \* FeedbackLoopConfig (with its TuningTarget)
    original_config,  \* GuardrailFeedbackLoop._original_config
    current_config,   \* GuardrailFeedbackLoop._current_config
    tunable,          \* the list run() gets from _get_tunable_guardrails
    states,           \* ThresholdAdjuster.states: key -> TuningState
    current_metrics,  \* run(): result of the latest evaluation
    iteration,        \* run(): loop variable of the round loop
    gi,               \* run(): position in tunable inside a round
    any_adjustments,  \* run(): flag of the current round
    results,          \* GuardrailFeedbackLoop.results
    evals,            \* number of evaluator invocations so far
    saved,            \* config snapshots written by _save_config
    pc,               \* position of run(), or "api" for direct adjuster use
    call              \* the latest calculate_adjustment call and its outcome

vars == <<cfg, original_config, current_config, tunable, states,
          current_metrics, iteration, gi, any_adjustments, results, evals,
          saved, pc, call>>

----------------------------------------------------------------------------
(* Bounds *)

\* largest oscillation_count with which a direct call may compute a step
MaxOsc == 3

\* largest number of direct calculate_adjustment calls on one state
MaxCalls == 4

\* calls of one uninterrupted tuning of a state, more than any takes
MaxRepeat == 40

----------------------------------------------------------------------------
(* Numbers *)

\* units per 0.001; a power of two so that step_size / 2^osc stays integral
Q == 2 ^ (MaxOsc + 1)

Milli(n) == n * Q

Max(a, b) == IF a >= b THEN a ELSE b

Min(a, b) == IF a <= b THEN a ELSE b

\* round(x, 3): nearest multiple of 0.001.  An exact decimal tie is decided
\* by the binary value of the float, which may lie on either side: tieUp.
Round3(x, tieUp) ==
    LET q == x \div Q
        r == x % Q
    IN  IF 2 * r < Q THEN q * Q
        ELSE IF 2 * r > Q THEN (q + 1) * Q
        ELSE IF tieUp THEN (q + 1) * Q ELSE q * Q

\* Operands a, b in hundredths for which the float a/100 - b/100 is greater
\* (PosDev) or smaller (NegDev) than the float nearest to (a - b)/100; for
\* the other operands in {85, 90, 95} x {0, 2, 50, 80, 83, 85, 88, 90, 92,
\* 93, 95} the two are equal.
PosDev ==
    { <<85, 83>>, <<85, 95>>, <<90, 83>>, <<90, 85>>, <<90, 88>>, <<90, 95>> }

NegDev ==
    { <<85, 80>>, <<85, 88>>, <<85, 90>>, <<85, 92>>, <<85, 93>>, <<90, 80>>,
      <<90, 92>>, <<90, 93>>, <<95, 2>>, <<95, 50>>, <<95, 80>>, <<95, 85>>,
      <<95, 88>>, <<95, 90>>, <<95, 92>>, <<95, 93>> }

Dev(a, b) ==
    IF <<a, b>> \in PosDev THEN 1 ELSE IF <<a, b>> \in NegDev THEN -1 ELSE 0

\* float subtraction a - b, in half hundredths
FSub(a, b) == 2 * (a - b) + Dev(a, b)

NoneVal == "None"

\* _original_config and _current_config before _load_config: None, as a
\* record that is no configuration document
NoConfig == [loaded |-> FALSE]

----------------------------------------------------------------------------
(* types.py *)

INCREASE == "increase"

DECREASE == "decrease"

STABLE == "stable"

\* GuardrailMetrics: precision and recall decide everything the tuner does;
\* f1_score and the sample counts are carried along unread and left out.
GuardrailMetrics(p, r) == [precision |-> p, recall |-> r]

TuningTarget(pt, rt, prio, tol) ==
    [precision_target |-> pt, recall_target |-> rt, priority |-> prio,
     tolerance |-> tol]

----------------------------------------------------------------------------
(* threshold_adjuster.py: MetricsAnalyzer *)

calculate_gaps(m) ==
    LET T == cfg.targets
    IN  [precision_gap |-> FSub(T.precision_target, m.precision),
         recall_gap |-> FSub(T.recall_target, m.recall),
         precision_achieved |->
             2 * m.precision >= FSub(T.precision_target, T.tolerance),
         recall_achieved |->
             2 * m.recall >= FSub(T.recall_target, T.tolerance)]

PriorityDirectionTieIncrease(precision_gap, recall_gap) ==
    IF cfg.targets.priority = "precision" THEN INCREASE
    ELSE IF cfg.targets.priority = "recall" THEN DECREASE
    ELSE IF precision_gap >= recall_gap THEN INCREASE ELSE DECREASE

\* lines 55-61: both below target -> use priority or larger gap
PriorityDirection(precision_gap, recall_gap) ==
    IF cfg.targets.priority = "precision" THEN INCREASE
    ELSE IF cfg.targets.priority = "recall" THEN DECREASE
    ELSE IF precision_gap > recall_gap THEN INCREASE ELSE DECREASE

determine_direction(m) ==
    LET gaps == calculate_gaps(m)
        tol == 2 * cfg.targets.tolerance
    IN  IF gaps.precision_achieved /\ gaps.recall_achieved THEN STABLE
        ELSE IF gaps.precision_gap > tol /\ gaps.recall_gap <= tol
             THEN INCREASE
        ELSE IF gaps.recall_gap > tol /\ gaps.precision_gap <= tol
             THEN DECREASE
        ELSE PriorityDirection(gaps.precision_gap, gaps.recall_gap)

----------------------------------------------------------------------------
(* threshold_adjuster.py: ThresholdAdjuster *)

NoReason == <<>>

\* calculate_adjustment returning None
NoAdjustment == [direction |-> NoneVal]

TuningState(stage, guardrail_name, threshold) ==
    [guardrail_name |-> guardrail_name,
     stage |-> stage,
     current_threshold |-> threshold,
     initial_threshold |-> threshold,
     threshold_history |-> <<>>,
     metrics_history |-> <<>>,
     adjustments |-> <<>>,
     oscillation_count |-> 0,
     last_direction |-> NoneVal,
     converged |-> FALSE,
     stop_reason |-> NoReason]

ThresholdAdjustment(st, old, new, direction, reason, iter) ==
    [guardrail_name |-> st.guardrail_name, stage |-> st.stage,
     old_threshold |-> old, new_threshold |-> new, direction |-> direction,
     reason |-> reason, iteration |-> iter]

\* f"{stage}:{guardrail_name}"
state_key(stage, guardrail_name) == stage \o ":" \o guardrail_name

\* the states map after get_or_create_state(stage, name, threshold)
get_or_create_state(sts, stage, guardrail_name, threshold) ==
    LET key == state_key(stage, guardrail_name)
    IN  IF key \in DOMAIN sts THEN sts
        ELSE [k \in DOMAIN sts \cup {key} |->
                 IF k = key THEN TuningState(stage, guardrail_name, threshold)
                 ELSE sts[k]]

\* get_state: the state, and whether there is one (None otherwise)
has_state(sts, stage, guardrail_name) ==
    state_key(stage, guardrail_name) \in DOMAIN sts

get_state(sts, stage, guardrail_name) ==
    sts[state_key(stage, guardrail_name)]

OscillationDetected_AnyChange(st, direction) ==
    st.last_direction # direction

\* lines 118-120: the direction changed from last time
OscillationDetected(st, direction) ==
    st.last_direction # NoneVal /\ st.last_direction # direction

StepSize_Late(oscillation_count) ==
    IF oscillation_count > 1
    THEN Max(cfg.min_step_size,
             cfg.step_size \div (2 ^ (oscillation_count - 1)))
    ELSE cfg.step_size

\* lines 140-146: step size, reduced on oscillation
StepSize(oscillation_count) ==
    IF oscillation_count > 0
    THEN Max(cfg.min_step_size, cfg.step_size \div (2 ^ oscillation_count))
    ELSE cfg.step_size

NewThreshold_Unclamped(current, direction, step, tieUp) ==
    IF direction = INCREASE
    THEN Round3(current + step, tieUp)
    ELSE Round3(current - step, tieUp)

\* lines 148-163: the new threshold, clamped on the side it moves to, rounded
NewThreshold(current, direction, step, tieUp) ==
    IF direction = INCREASE
    THEN Round3(Min(cfg.max_threshold, current + step), tieUp)
    ELSE Round3(Max(cfg.min_threshold, current - step), tieUp)

\* f"{step:.3f}": the step in thousandths
Fmt3(step, tieUp) == Round3(step, tieUp) \div Q

AdjustReason(direction, step, tieUp) ==
    IF direction = INCREASE
    THEN <<"Precision below target, increasing threshold by", Fmt3(step, tieUp)>>
    ELSE <<"Recall below target, decreasing threshold by", Fmt3(step, tieUp)>>

TargetsAchieved_Recording(st, m) ==
    [st EXCEPT !.converged = TRUE, !.stop_reason = <<"Targets achieved">>,
               !.metrics_history = Append(@, m)]

\* lines 113-116: the state a call leaves when the direction is STABLE
TargetsAchieved(st, m) ==
    [st EXCEPT !.converged = TRUE, !.stop_reason = <<"Targets achieved">>]

OscillationLimitReached_Above(oscillation_count) ==
    oscillation_count > cfg.oscillation_limit

\* line 127
OscillationLimitReached(oscillation_count) ==
    oscillation_count >= cfg.oscillation_limit

ApplyAdjustment_NewInHistory(st, m, adjustment) ==
    [st EXCEPT !.threshold_history = Append(@, adjustment.new_threshold),
               !.metrics_history = Append(@, m),
               !.adjustments = Append(@, adjustment),
               !.current_threshold = adjustment.new_threshold,
               !.last_direction = adjustment.direction]

\* lines 189-194: update state (st holds the current threshold of line 190,
\* the adjustment the new threshold and the direction of lines 193-194)
ApplyAdjustment(st, m, adjustment) ==
    [st EXCEPT !.threshold_history = Append(@, st.current_threshold),
               !.metrics_history = Append(@, m),
               !.adjustments = Append(@, adjustment),
               !.current_threshold = adjustment.new_threshold,
               !.last_direction = adjustment.direction]

\* calculate_adjustment(state, metrics, iteration): the state it leaves, the
\* value it returns, and the direction and step it worked with (step is -1
\* when the call returns before computing one).  fl holds the two float
\* tie outcomes of the call: of round(new_threshold, 3) and of the format.
calculate_adjustment(st, m, iter, fl) ==
    LET direction == determine_direction(m)
        flip == OscillationDetected(st, direction)
        osc == IF flip THEN st.oscillation_count + 1 ELSE st.oscillation_count
        st1 == [st EXCEPT !.oscillation_count = osc]
        step == StepSize(osc)
        new_threshold == NewThreshold(st.current_threshold, direction, step,
                                      fl.round_up)
    IN  IF direction = STABLE
        THEN [state |-> TargetsAchieved(st, m),
              ret |-> NoAdjustment, direction |-> direction, step |-> -1]
        ELSE IF flip /\ OscillationLimitReached(osc)
        THEN LET reason == <<"Oscillation limit reached", cfg.oscillation_limit>>
             IN  [state |-> [st1 EXCEPT !.converged = TRUE,
                                        !.stop_reason = reason],
                  ret |-> ThresholdAdjustment(st, st.current_threshold,
                              st.current_threshold, STABLE, reason, iter),
                  direction |-> direction, step |-> -1]
        ELSE IF new_threshold = st.current_threshold
        THEN LET reason == <<"Threshold at bounds limit">>
             IN  [state |-> [st1 EXCEPT !.converged = TRUE,
                                        !.stop_reason = reason],
                  ret |-> ThresholdAdjustment(st, st.current_threshold,
                              new_threshold, STABLE, reason, iter),
                  direction |-> direction, step |-> step]
        ELSE LET adjustment ==
                     ThresholdAdjustment(st, st.current_threshold,
                         new_threshold, direction,
                         AdjustReason(direction, step, fl.fmt_up), iter)
             IN  [state |-> ApplyAdjustment(st1, m, adjustment),
                  ret |-> adjustment, direction |-> direction, step |-> step]

should_continue_tuning_Always(sts, stage, guardrail_name) == TRUE

should_continue_tuning(sts, stage, guardrail_name) ==
    IF ~has_state(sts, stage, guardrail_name) THEN TRUE
    ELSE ~get_state(sts, stage, guardrail_name).converged

\* the states map after update_metrics(stage, name, metrics)
update_metrics(sts, stage, guardrail_name, m) ==
    LET key == state_key(stage, guardrail_name)
    IN  IF key \in DOMAIN sts
        THEN [sts EXCEPT ![key].metrics_history = Append(@, m)]
        ELSE sts

----------------------------------------------------------------------------
(* Configurations, documents and metrics the model runs on *)

FeedbackLoopConfig(max_it, step, min_step, min_t, max_t, osc_limit, targets) ==
    [max_iterations |-> max_it, step_size |-> step,
     min_step_size |-> min_step, min_threshold |-> min_t,
     max_threshold |-> max_t, oscillation_limit |-> osc_limit,
     targets |-> targets]

\* TuningTarget(): 0.90 / 0.90, priority f1, tolerance 0.02
DefaultTargets == TuningTarget(90, 90, "f1", 2)

\* FeedbackLoopConfig() with the given targets, step and iteration budget:
\* min_step_size 0.01, thresholds in [0.1, 0.95], oscillation_limit 3
DefaultsWith(max_iterations, step_size, targets) ==
    FeedbackLoopConfig(max_iterations, step_size, Milli(10), Milli(100),
                       Milli(950), 3, targets)

LoopConfigs ==
    { DefaultsWith(3, Milli(50), DefaultTargets),
      \* --step-size 0.005, below the default min_step_size
      DefaultsWith(2, Milli(5), DefaultTargets),
      \* --priority precision, --priority recall
      DefaultsWith(2, Milli(50), TuningTarget(90, 90, "precision", 2)),
      DefaultsWith(2, Milli(50), TuningTarget(90, 90, "recall", 2)),
      \* --precision-target 0.95 --recall-target 0.85
      DefaultsWith(2, Milli(50), TuningTarget(95, 85, "f1", 2)),
      \* loop_config: stop at the first or second oscillation
      FeedbackLoopConfig(3, Milli(50), Milli(10), Milli(100), Milli(950), 1,
                         DefaultTargets),
      FeedbackLoopConfig(3, Milli(100), Milli(10), Milli(100), Milli(950), 2,
                         DefaultTargets),
      \* loop_config: steps of 0.0005, bounds [0, 1]
      FeedbackLoopConfig(2, Q \div 2, Q \div 2, 0, Milli(1000), 3,
                         DefaultTargets) }

Guardrail(name, config) == [name |-> name, config |-> config]

WithThreshold(t) == [confidence_threshold |-> t, model |-> "gpt"]

WithoutThreshold == [model |-> "gpt"]

ConfigDoc(input, output, pre_flight) ==
    [input |-> input, output |-> output, pre_flight |-> pre_flight]

ConfigDocs ==
    { \* one tunable guardrail beside one without a threshold
      ConfigDoc(<<Guardrail("pii", WithoutThreshold),
                  Guardrail("jailbreak", WithThreshold(Milli(700)))>>,
                <<>>, <<>>),
      \* two stages, one threshold at max_threshold
      ConfigDoc(<<Guardrail("jailbreak", WithThreshold(Milli(500)))>>,
                <<Guardrail("nsfw", WithThreshold(Milli(950)))>>, <<>>),
      \* thresholds outside [min_threshold, max_threshold]
      ConfigDoc(<<Guardrail("jailbreak", WithThreshold(Milli(990)))>>,
                <<>>,
                <<Guardrail("pii", WithThreshold(Milli(20)))>>),
      \* two entries of one stage with the same name
      ConfigDoc(<<Guardrail("jailbreak", WithThreshold(Milli(500))),
                  Guardrail("jailbreak", WithThreshold(Milli(600)))>>,
                <<>>, <<>>),
      \* the same name twice, the first entry without a threshold
      ConfigDoc(<<Guardrail("jailbreak", WithoutThreshold),
                  Guardrail("jailbreak", WithThreshold(Milli(600)))>>,
                <<>>, <<>>),
      \* a threshold with more than three decimals: 0.50025
      ConfigDoc(<<>>,
                <<Guardrail("nsfw", WithThreshold(Milli(500) + Q \div 4))>>,
                <<>>),
      \* nothing to tune
      ConfigDoc(<<Guardrail("pii", WithoutThreshold)>>, <<>>, <<>>) }

\* metrics an evaluation reports in a run
RunSnapshots ==
    { GuardrailMetrics(50, 95),    \* precision low
      GuardrailMetrics(95, 50),    \* recall low
      GuardrailMetrics(92, 93) }   \* both achieved with the default targets

\* metrics for the analyzer: around the targets and on target - tolerance
MetricValues == {50, 80, 83, 85, 88, 90, 92, 93, 95}

Snapshots == [precision : MetricValues, recall : MetricValues]

Flags == [round_up : BOOLEAN, fmt_up : BOOLEAN]

----------------------------------------------------------------------------
(* feedback_loop.py: GuardrailFeedbackLoop *)

Stages == <<"input", "output", "pre_flight">>

TunableIn(doc, stage) ==
    LET grs == SelectSeq(doc[stage],
                   LAMBDA gr : "confidence_threshold" \in DOMAIN gr.config)
    IN  [i \in 1..Len(grs) |->
            [stage |-> stage, name |-> grs[i].name,
             threshold |-> grs[i].config.confidence_threshold]]

get_tunable_guardrails(doc) ==
    TunableIn(doc, Stages[1]) \o TunableIn(doc, Stages[2])
        \o TunableIn(doc, Stages[3])

\* _update_threshold finds an entry of that name in the stage
HasGuardrail(doc, stage, guardrail_name) ==
    \E i \in 1..Len(doc[stage]) : doc[stage][i].name = guardrail_name

\* _update_threshold: write round(new_threshold, 3) into the first entry of
\* the stage that carries the name
update_threshold(doc, stage, guardrail_name, new_threshold, tieUp) ==
    LET i == CHOOSE j \in 1..Len(doc[stage]) :
                 /\ doc[stage][j].name = guardrail_name
                 /\ \A k \in 1..(j - 1) : doc[stage][k].name # guardrail_name
        c == doc[stage][i].config
        written == [f \in DOMAIN c \cup {"confidence_threshold"} |->
                       IF f = "confidence_threshold"
                       THEN Round3(new_threshold, tieUp) ELSE c[f]]
    IN  [doc EXCEPT ![stage][i].config = written]

\* run(), lines 278-280: a state for every entry of tunable, from entry i on
RECURSIVE InitStates(_, _, _)
InitStates(sts, tun, i) ==
    IF i > Len(tun) THEN sts
    ELSE InitStates(get_or_create_state(sts, tun[i].stage, tun[i].name,
                                        tun[i].threshold), tun, i + 1)

\* run(), lines 287-292 and 350-355: record the metrics of an evaluation for
\* every entry of tunable the evaluation reports, from entry i on.  The
\* evaluation result is keyed here by state_key(stage, name) in place of
\* the nested stage -> name dictionaries.
RECURSIVE StoreMetrics(_, _, _, _)
StoreMetrics(sts, tun, metrics, i) ==
    IF i > Len(tun) THEN sts
    ELSE LET key == state_key(tun[i].stage, tun[i].name)
         IN  StoreMetrics(IF key \in DOMAIN metrics
                          THEN update_metrics(sts, tun[i].stage, tun[i].name,
                                              metrics[key])
                          ELSE sts,
                          tun, metrics, i + 1)

NoMetrics == [none |-> TRUE]

TuningResult_InitialAsFinal(gr, st) ==
    [guardrail_name |-> gr.name,
     stage |-> gr.stage,
     initial_threshold |-> st.initial_threshold,
     final_threshold |-> st.initial_threshold,
     initial_metrics |-> IF st.metrics_history # <<>>
                         THEN st.metrics_history[1] ELSE NoMetrics,
     final_metrics |-> IF st.metrics_history # <<>>
                       THEN st.metrics_history[Len(st.metrics_history)]
                       ELSE NoMetrics,
     adjustments |-> st.adjustments,
     converged |-> st.converged,
     reason |-> IF st.stop_reason # NoReason THEN st.stop_reason
                ELSE <<"Max iterations reached">>,
     iterations |-> Len(st.adjustments)]

\* run(), lines 359-380: one TuningResult per entry of tunable with a state
TuningResult(gr, st) ==
    [guardrail_name |-> gr.name,
     stage |-> gr.stage,
     initial_threshold |-> st.initial_threshold,
     final_threshold |-> st.current_threshold,
     initial_metrics |-> IF st.metrics_history # <<>>
                         THEN st.metrics_history[1] ELSE NoMetrics,
     final_metrics |-> IF st.metrics_history # <<>>
                       THEN st.metrics_history[Len(st.metrics_history)]
                       ELSE NoMetrics,
     adjustments |-> st.adjustments,
     converged |-> st.converged,
     reason |-> IF st.stop_reason # NoReason THEN st.stop_reason
                ELSE <<"Max iterations reached">>,
     iterations |-> Len(st.adjustments)]

RECURSIVE BuildResults(_, _, _)
BuildResults(sts, tun, i) ==
    IF i > Len(tun) THEN <<>>
    ELSE IF has_state(sts, tun[i].stage, tun[i].name)
    THEN <<TuningResult(tun[i], get_state(sts, tun[i].stage, tun[i].name))>>
             \o BuildResults(sts, tun, i + 1)
    ELSE BuildResults(sts, tun, i + 1)

TunableKeys(tun) ==
    {state_key(tun[i].stage, tun[i].name) : i \in 1..Len(tun)}

\* what an evaluation can report: metrics for any part of the tunable
\* guardrails (others it reports are never read)
EvalReports(tun) ==
    UNION {[ks -> RunSnapshots] : ks \in SUBSET TunableKeys(tun)}

NoCall == [kind |-> "none"]

AdjustCall(key, st, m, iter, res) ==
    [kind |-> "adjust", key |-> key, metrics |-> m, iteration |-> iter,
     direction |-> res.direction, step |-> res.step, ret |-> res.ret,
     pre |-> st, post |-> res.state]

Init ==
    /\ cfg \in LoopConfigs
    /\ original_config = NoConfig
    /\ current_config = NoConfig
    /\ tunable = <<>>
    /\ states = <<>>
    /\ current_metrics = <<>>
    /\ iteration = 0
    /\ gi = 0
    /\ any_adjustments = FALSE
    /\ results = <<>>
    /\ evals = 0
    /\ saved = <<>>
    /\ pc = "start"
    /\ call = NoCall

\* run(), lines 257-280: load the configuration, find the tunable guardrails,
\* write the backup, create the states
LoadConfig ==
    /\ pc = "start"
    /\ \E doc \in ConfigDocs :
          LET tun == get_tunable_guardrails(doc)
          IN  /\ original_config' = doc
              /\ current_config' = doc
              /\ tunable' = tun
              /\ IF tun = <<>>
                 THEN /\ pc' = "done"
                      /\ UNCHANGED <<states, saved>>
                 ELSE /\ pc' = "initial_eval"
                      /\ saved' = Append(saved, [file |-> "config_backup",
                                                 config |-> doc])
                      /\ states' = InitStates(states, tun, 1)
    /\ UNCHANGED <<cfg, current_metrics, iteration, gi, any_adjustments,
                   results, evals, call>>

\* where the round loop goes after round `done`: round done + 1, or the
\* results when the budget is used up
NextRound(done) ==
    IF done + 1 <= cfg.max_iterations
    THEN /\ pc' = "round"
         /\ iteration' = done + 1
         /\ gi' = 1
         /\ any_adjustments' = FALSE
    ELSE /\ pc' = "results"
         /\ UNCHANGED <<iteration, gi, any_adjustments>>

\* run(), lines 282-292: the initial evaluation returns metrics
InitialEval ==
    /\ pc = "initial_eval"
    /\ \E metrics \in EvalReports(tunable) :
          /\ current_metrics' = metrics
          /\ states' = StoreMetrics(states, tunable, metrics, 1)
    /\ evals' = evals + 1
    /\ NextRound(0)
    /\ UNCHANGED <<cfg, original_config, current_config, tunable, results,
                   saved, call>>

EvalFails_ReturnsResults ==
    /\ pc \in {"initial_eval", "eval"}
    /\ evals' = evals + 1
    /\ pc' = "error"
    /\ results' = BuildResults(states, tunable, 1)
    /\ UNCHANGED <<cfg, original_config, current_config, tunable, states,
                   current_metrics, iteration, gi, any_adjustments, saved,
                   call>>

\* _run_eval, line 187: no eval_metrics.json, FileNotFoundError leaves run()
EvalFails ==
    /\ pc \in {"initial_eval", "eval"}
    /\ evals' = evals + 1
    /\ pc' = "error"
    /\ UNCHANGED <<cfg, original_config, current_config, tunable, states,
                   current_metrics, iteration, gi, any_adjustments, results,
                   saved, call>>

\* the entry of tunable the round is at
InRound == pc = "round" /\ gi <= Len(tunable)

\* run(), lines 304-307: the guardrail has converged, skip it
SkipConverged ==
    /\ InRound
    /\ ~should_continue_tuning(states, tunable[gi].stage, tunable[gi].name)
    /\ gi' = gi + 1
    /\ UNCHANGED <<cfg, original_config, current_config, tunable, states,
                   current_metrics, iteration, any_adjustments, results,
                   evals, saved, pc, call>>

SkipNoMetrics_Error ==
    /\ InRound
    /\ should_continue_tuning(states, tunable[gi].stage, tunable[gi].name)
    /\ state_key(tunable[gi].stage, tunable[gi].name)
           \notin DOMAIN current_metrics
    /\ pc' = "error"
    /\ UNCHANGED <<cfg, original_config, current_config, tunable, states,
                   current_metrics, iteration, gi, any_adjustments, results,
                   evals, saved, call>>

\* run(), lines 309-315: no metrics for the guardrail, skip it
SkipNoMetrics ==
    /\ InRound
    /\ should_continue_tuning(states, tunable[gi].stage, tunable[gi].name)
    /\ state_key(tunable[gi].stage, tunable[gi].name)
           \notin DOMAIN current_metrics
    /\ gi' = gi + 1
    /\ UNCHANGED <<cfg, original_config, current_config, tunable, states,
                   current_metrics, iteration, any_adjustments, results,
                   evals, saved, pc, call>>

\* run(), lines 317-336: compute the adjustment and apply it
Adjust ==
    /\ InRound
    /\ should_continue_tuning(states, tunable[gi].stage, tunable[gi].name)
    /\ LET gr == tunable[gi]
           key == state_key(gr.stage, gr.name)
       IN  /\ key \in DOMAIN current_metrics
           /\ \E fl \in Flags :
                 LET st == get_state(states, gr.stage, gr.name)
                     res == calculate_adjustment(st, current_metrics[key],
                                                 iteration, fl)
                 IN  /\ states' = [states EXCEPT ![key] = res.state]
                     /\ call' = AdjustCall(key, st, current_metrics[key],
                                           iteration, res)
                     /\ IF res.ret # NoAdjustment /\ res.ret.direction # STABLE
                        THEN IF HasGuardrail(current_config, gr.stage, gr.name)
                             THEN /\ current_config' =
                                       update_threshold(current_config,
                                           gr.stage, gr.name,
                                           res.ret.new_threshold, fl.round_up)
                                  /\ any_adjustments' = TRUE
                                  /\ gi' = gi + 1
                                  /\ pc' = pc
                             ELSE /\ pc' = "error"
                                  /\ UNCHANGED <<current_config,
                                                 any_adjustments, gi>>
                        ELSE /\ gi' = gi + 1
                             /\ UNCHANGED <<current_config, any_adjustments,
                                            pc>>
    /\ UNCHANGED <<cfg, original_config, tunable, current_metrics, iteration,
                   results, evals, saved>>

EndRound_AlwaysEval ==
    /\ pc = "round"
    /\ gi > Len(tunable)
    /\ pc' = "eval"
    /\ saved' = Append(saved, [file |-> "config_iter",
                               iteration |-> iteration,
                               config |-> current_config])
    /\ UNCHANGED <<cfg, original_config, current_config, tunable, states,
                   current_metrics, iteration, gi, any_adjustments, results,
                   evals, call>>

\* run(), lines 338-344: after the last entry, stop when nothing was
\* adjusted, else write the intermediate configuration
EndRound ==
    /\ pc = "round"
    /\ gi > Len(tunable)
    /\ IF ~any_adjustments
       THEN /\ pc' = "results"
            /\ UNCHANGED saved
       ELSE /\ pc' = "eval"
            /\ saved' = Append(saved, [file |-> "config_iter",
                                       iteration |-> iteration,
                                       config |-> current_config])
    /\ UNCHANGED <<cfg, original_config, current_config, tunable, states,
                   current_metrics, iteration, gi, any_adjustments, results,
                   evals, call>>

\* run(), lines 346-355: the re-evaluation returns metrics
ReEval ==
    /\ pc = "eval"
    /\ \E metrics \in EvalReports(tunable) :
          /\ current_metrics' = metrics
          /\ states' = StoreMetrics(states, tunable, metrics, 1)
    /\ evals' = evals + 1
    /\ NextRound(iteration)
    /\ UNCHANGED <<cfg, original_config, current_config, tunable, results,
                   saved, call>>

\* run(), lines 357-391: the results and the tuned configuration
Finish ==
    /\ pc = "results"
    /\ results' = BuildResults(states, tunable, 1)
    /\ saved' = Append(saved, [file |-> "eval_config_tuned",
                               config |-> current_config])
    /\ pc' = "done"
    /\ UNCHANGED <<cfg, original_config, current_config, tunable, states,
                   current_metrics, iteration, gi, any_adjustments, evals,
                   call>>

Next ==
    \/ LoadConfig
    \/ InitialEval
    \/ EvalFails
    \/ SkipConverged
    \/ SkipNoMetrics
    \/ Adjust
    \/ EndRound
    \/ ReEval
    \/ Finish

Spec == Init /\ [][Next]_vars

\* where run() is: every step of Next moves pc or gi
position == <<pc, gi>>

\* the configurations of LoopConfigs with a budget of two rounds, and the
\* one that stops a guardrail at its first oscillation
RunConfigs ==
    {c \in LoopConfigs : c.max_iterations = 2 \/ c.oscillation_limit = 1}

InitRun ==
    /\ Init
    /\ cfg \in RunConfigs

\* run() is one sequential coroutine: whenever it has a next step it takes
\* one
SpecRun == InitRun /\ [][Next]_vars /\ WF_position(Next)

----------------------------------------------------------------------------
(* ThresholdAdjuster used directly: any sequence of calculate_adjustment    *)
(* calls on the state of one guardrail                                      *)

DirectThresholds ==
    {Milli(20), Milli(100), Milli(500), Milli(500) + Q \div 4, Milli(950),
     Milli(990)}

DirectSnapshots ==
    RunSnapshots \cup {GuardrailMetrics(80, 80), GuardrailMetrics(88, 50)}

InitAdj ==
    /\ cfg \in LoopConfigs
    /\ original_config = NoConfig
    /\ current_config = NoConfig
    /\ tunable = <<>>
    /\ \E t \in DirectThresholds :
          states = get_or_create_state(<<>>, "input", "jailbreak", t)
    /\ current_metrics = <<>>
    /\ iteration = 0
    /\ gi = 0
    /\ any_adjustments = FALSE
    /\ results = <<>>
    /\ evals = 0
    /\ saved = <<>>
    /\ pc = "api"
    /\ call = NoCall

\* adjuster.calculate_adjustment(state, metrics, iteration) by a caller that
\* numbers its calls; nothing in the method looks at state.converged
DirectCalculate ==
    /\ pc = "api"
    /\ iteration < MaxCalls
    /\ \E key \in DOMAIN states, m \in DirectSnapshots, fl \in Flags :
          LET res == calculate_adjustment(states[key], m, iteration + 1, fl)
          IN  /\ res.state.oscillation_count <= MaxOsc
              /\ states' = [states EXCEPT ![key] = res.state]
              /\ call' = AdjustCall(key, states[key], m, iteration + 1, res)
    /\ iteration' = iteration + 1
    /\ UNCHANGED <<cfg, original_config, current_config, tunable,
                   current_metrics, gi, any_adjustments, results, evals,
                   saved, pc>>

NextAdj == DirectCalculate

SpecAdj == InitAdj /\ [][NextAdj]_vars

----------------------------------------------------------------------------
(* ThresholdAdjuster used by a caller that goes on calling                  *)
(* calculate_adjustment while should_continue_tuning allows it, whatever    *)
(* the metrics                                                              *)

\* the configurations of LoopConfigs whose steps stay multiples of 0.001 up
\* to the oscillation limit: those that stop at the first or second
\* oscillation
RepeatConfigs == {c \in LoopConfigs : c.oscillation_limit < 3}

InitRepeat ==
    /\ cfg \in RepeatConfigs
    /\ original_config = NoConfig
    /\ current_config = NoConfig
    /\ tunable = <<>>
    /\ \E t \in DirectThresholds :
          states = get_or_create_state(<<>>, "input", "jailbreak", t)
    /\ current_metrics = <<>>
    /\ iteration = 0
    /\ gi = 0
    /\ any_adjustments = FALSE
    /\ results = <<>>
    /\ evals = 0
    /\ saved = <<>>
    /\ pc = "repeat"
    /\ call = NoCall

\* if adjuster.should_continue_tuning(stage, name):
\*     adjuster.calculate_adjustment(state, metrics, iteration)
CalculateWhileTuning ==
    /\ pc = "repeat"
    /\ iteration < MaxRepeat
    /\ \E key \in DOMAIN states, m \in RunSnapshots, fl \in Flags :
          LET st == states[key]
              res == calculate_adjustment(st, m, iteration + 1, fl)
          IN  /\ should_continue_tuning(states, st.stage, st.guardrail_name)
              /\ states' = [states EXCEPT ![key] = res.state]
              /\ call' = AdjustCall(key, st, m, iteration + 1, res)
    /\ iteration' = iteration + 1
    /\ UNCHANGED <<cfg, original_config, current_config, tunable,
                   current_metrics, gi, any_adjustments, results, evals,
                   saved, pc>>

NextRepeat == CalculateWhileTuning

\* the caller goes on: each call it can make it does make
SpecRepeat == InitRepeat /\ [][NextRepeat]_vars /\ WF_iteration(NextRepeat)

----------------------------------------------------------------------------
(* MetricsAnalyzer used directly: determine_direction on any snapshot       *)

AnalyzerTargets ==
    [precision_target : {85, 90, 95}, recall_target : {85, 90, 95},
     priority : {"precision", "recall", "f1"}, tolerance : {0, 2}]

InitDir ==
    /\ \E T \in AnalyzerTargets : cfg = DefaultsWith(1, Milli(50), T)
    /\ original_config = NoConfig
    /\ current_config = NoConfig
    /\ tunable = <<>>
    /\ states = <<>>
    /\ current_metrics = <<>>
    /\ iteration = 0
    /\ gi = 0
    /\ any_adjustments = FALSE
    /\ results = <<>>
    /\ evals = 0
    /\ saved = <<>>
    /\ pc = "analyzer"
    /\ call = NoCall

Analyze ==
    /\ pc = "analyzer"
    /\ call = NoCall
    /\ \E m \in Snapshots :
          call' = [kind |-> "analyze", metrics |-> m,
                   gaps |-> calculate_gaps(m),
                   direction |-> determine_direction(m)]
    /\ UNCHANGED <<cfg, original_config, current_config, tunable, states,
                   current_metrics, iteration, gi, any_adjustments, results,
                   evals, saved, pc>>

NextDir == Analyze

SpecDir == InitDir /\ [][NextDir]_vars

----------------------------------------------------------------------------
(* Properties *)

InBounds(t) == cfg.min_threshold <= t /\ t <= cfg.max_threshold

Adjusted == call.kind = "adjust"

\* the call applied an adjustment: it returned an INCREASE or DECREASE record
Applied ==
    /\ Adjusted
    /\ call.ret # NoAdjustment
    /\ call.ret.direction \in {INCREASE, DECREASE}

\* C1: in every state of a run, from the creation of the states on, every
\* guardrail's current_threshold lies in [min_threshold, max_threshold].
C1_ThresholdAlwaysInBounds ==
    \A k \in DOMAIN states : InBounds(states[k].current_threshold)

\* C2: after every calculate_adjustment call that applies an adjustment, the
\* new current_threshold lies in [min_threshold, max_threshold], whatever
\* the threshold was before.
C2_AppliedAdjustmentInBounds ==
    Applied => InBounds(call.post.current_threshold)

\* C3: a calculate_adjustment call on a state that is already converged
\* leaves current_threshold unchanged, for any metrics.
C3_ConvergedCallKeepsThreshold ==
    (Adjusted /\ call.pre.converged)
        => call.post.current_threshold = call.pre.current_threshold

\* C4: in a run, converged never goes back to false, and once a guardrail is
\* converged no adjustment is computed for it (should_continue_tuning is
\* false, no calculate_adjustment call is made on its state), so its
\* current_threshold, adjustments, oscillation_count and last_direction
\* stay as they are.
C4_ConvergedIsTerminal ==
    [][\A k \in DOMAIN states :
          states[k].converged =>
              /\ ~should_continue_tuning(states, states[k].stage,
                                         states[k].guardrail_name)
              /\ states'[k].converged
              /\ states'[k].current_threshold = states[k].current_threshold
              /\ states'[k].adjustments = states[k].adjustments
              /\ states'[k].oscillation_count = states[k].oscillation_count
              /\ states'[k].last_direction = states[k].last_direction
              /\ (call' # call => call'.key # k)]_vars

\* a later round passes a guardrail that converged in an earlier round
C4_Witness ==
    /\ pc = "round"
    /\ iteration >= 2
    /\ \E i \in 1..Len(tunable) :
          LET st == get_state(states, tunable[i].stage, tunable[i].name)
          IN  /\ i < gi
              /\ st.converged
              /\ Adjusted
              /\ call.key = state_key(tunable[i].stage, tunable[i].name)
              /\ call.iteration < iteration

\* C5: stop_reason is set exactly when converged is true, and once set no
\* later operation on the state gives it another value.
C5_StopReasonSetOnce ==
    /\ [](\A k \in DOMAIN states :
             (states[k].stop_reason # NoReason) <=> states[k].converged)
    /\ [][\A k \in DOMAIN states :
             states[k].stop_reason # NoReason
                 => states'[k].stop_reason = states[k].stop_reason]_vars

\* C6: over any sequence of calculate_adjustment calls on a state,
\* oscillation_count never decreases, and a call increases it, by exactly 1,
\* only when last_direction is set and the direction determined in the call
\* is a non-STABLE direction other than last_direction.
C6_OscillationCountMonotone ==
    /\ [](Adjusted =>
             \/ call.post.oscillation_count = call.pre.oscillation_count
             \/ /\ call.post.oscillation_count
                       = call.pre.oscillation_count + 1
                /\ call.pre.last_direction # NoneVal
                /\ call.direction # STABLE
                /\ call.direction # call.pre.last_direction)
    /\ [][\A k \in DOMAIN states :
             states'[k].oscillation_count >= states[k].oscillation_count]_vars

\* a call that found the direction reversed and counted it
C6_Witness ==
    /\ Adjusted
    /\ call.pre.last_direction = INCREASE
    /\ call.direction = DECREASE
    /\ call.post.oscillation_count = call.pre.oscillation_count + 1

\* C7: the step a call works with is max(min_step_size, step_size /
\* 2^oscillation_count), so it is never below min_step_size, for every
\* positive step_size and min_step_size.
C7_StepIsFlooredHalving ==
    (Adjusted /\ call.step >= 0) =>
        /\ call.step = Max(cfg.min_step_size,
               cfg.step_size \div (2 ^ call.post.oscillation_count))
        /\ call.step >= cfg.min_step_size

\* C8: along the adjustments of one guardrail, a call made with a larger
\* oscillation_count never uses a larger step than the call before it made
\* with a smaller oscillation_count.
C8_StepNonIncreasing ==
    [][(/\ Adjusted
        /\ call.step >= 0
        /\ call' # call
        /\ call'.kind = "adjust"
        /\ call'.key = call.key
        /\ call'.step >= 0
        /\ call'.post.oscillation_count > call.post.oscillation_count)
           => call'.step <= call.step]_vars

\* the decision table on the decimal values: gap = target - observed,
\* achieved when observed >= target - tolerance
TableGapP(m) == cfg.targets.precision_target - m.precision

TableGapR(m) == cfg.targets.recall_target - m.recall

\* C9: determine_direction returns STABLE exactly when precision and recall
\* are both achieved, INCREASE when only the precision gap exceeds the
\* tolerance, DECREASE when only the recall gap does, and follows the
\* priority (precision: INCREASE, recall: DECREASE) only when both do.
C9_DecisionTable ==
    call.kind = "analyze" =>
        LET m == call.metrics
            tol == cfg.targets.tolerance
            pg == TableGapP(m)
            rg == TableGapR(m)
        IN  /\ (call.direction = STABLE) <=> (pg <= tol /\ rg <= tol)
            /\ (pg > tol /\ rg <= tol) => call.direction = INCREASE
            /\ (rg > tol /\ pg <= tol) => call.direction = DECREASE
            /\ (pg > tol /\ rg > tol /\ cfg.targets.priority = "precision")
                   => call.direction = INCREASE
            /\ (pg > tol /\ rg > tol /\ cfg.targets.priority = "recall")
                   => call.direction = DECREASE

\* priority f1 with both metrics below target by more than the tolerance:
\* neither is achieved and both computed gaps exceed the tolerance
BothBelowF1 ==
    /\ call.kind = "analyze"
    /\ cfg.targets.priority = "f1"
    /\ ~call.gaps.precision_achieved
    /\ ~call.gaps.recall_achieved
    /\ call.gaps.precision_gap > 2 * cfg.targets.tolerance
    /\ call.gaps.recall_gap > 2 * cfg.targets.tolerance

\* C10 as stated: under priority f1 with both metrics below target by more
\* than the tolerance, the larger gap gives the direction and equal gaps
\* give INCREASE.
C10_TieIncrease ==
    BothBelowF1 =>
        call.direction = IF call.gaps.precision_gap >= call.gaps.recall_gap
                         THEN INCREASE ELSE DECREASE

\* C10 amended: under priority f1 with both metrics below target by more
\* than the tolerance, the direction is INCREASE when the computed
\* precision_gap is strictly larger than the computed recall_gap and
\* DECREASE otherwise: equal gaps give DECREASE.
C10_TieDecrease ==
    BothBelowF1 =>
        call.direction = IF call.gaps.precision_gap > call.gaps.recall_gap
                         THEN INCREASE ELSE DECREASE

\* equal gaps under priority f1
C10_Witness ==
    /\ BothBelowF1
    /\ call.gaps.precision_gap = call.gaps.recall_gap
    /\ call.direction = DECREASE

\* the call found the direction reversed and the count at the limit or above
FlipAtLimit ==
    /\ Adjusted
    /\ call.pre.last_direction # NoneVal
    /\ call.direction # STABLE
    /\ call.direction # call.pre.last_direction
    /\ call.pre.oscillation_count + 1 >= cfg.oscillation_limit

\* C11: a calculate_adjustment call whose direction flip brings
\* oscillation_count to oscillation_limit or above marks the state converged
\* with reason "Oscillation limit reached (<limit>)", returns a STABLE
\* record with old_threshold = new_threshold, and leaves current_threshold,
\* threshold_history, metrics_history, adjustments and last_direction as
\* they were before the call.
C11_OscillationLimitStops ==
    FlipAtLimit =>
        /\ call.post.oscillation_count = call.pre.oscillation_count + 1
        /\ call.post.converged
        /\ call.post.stop_reason
               = <<"Oscillation limit reached", cfg.oscillation_limit>>
        /\ call.ret # NoAdjustment
        /\ call.ret.direction = STABLE
        /\ call.ret.reason = call.post.stop_reason
        /\ call.ret.old_threshold = call.ret.new_threshold
        /\ call.ret.old_threshold = call.pre.current_threshold
        /\ call.post.current_threshold = call.pre.current_threshold
        /\ call.post.threshold_history = call.pre.threshold_history
        /\ call.post.metrics_history = call.pre.metrics_history
        /\ call.post.adjustments = call.pre.adjustments
        /\ call.post.last_direction = call.pre.last_direction

\* the second flip of a state that was not converged, with oscillation_limit 2
C11_Witness ==
    /\ FlipAtLimit
    /\ cfg.oscillation_limit = 2
    /\ ~call.pre.converged
    /\ call.pre.oscillation_count = 1
    /\ call.post.oscillation_count = 2
    /\ Len(call.pre.adjustments) >= 2


\* the call marked the state converged with reason "Threshold at bounds
\* limit"
MarkedAtBounds ==
    /\ Adjusted
    /\ call.ret # NoAdjustment
    /\ call.ret.reason = <<"Threshold at bounds limit">>
    /\ call.post.converged
    /\ call.post.stop_reason = <<"Threshold at bounds limit">>

\* C12: whenever a calculate_adjustment call marks a state converged with
\* reason "Threshold at bounds limit", current_threshold is at a bound:
\* max_threshold when the direction is INCREASE, min_threshold when it is
\* DECREASE, for every step_size, min_step_size and starting threshold.
C12_BoundsLimitOnlyAtBound ==
    MarkedAtBounds =>
        /\ call.post.current_threshold = call.pre.current_threshold
        /\ \/ /\ call.direction = INCREASE
              /\ call.pre.current_threshold = cfg.max_threshold
           \/ /\ call.direction = DECREASE
              /\ call.pre.current_threshold = cfg.min_threshold


\* C13: when determine_direction returns STABLE for the metrics of a
\* calculate_adjustment call, the call returns None, sets converged with
\* stop_reason "Targets achieved", and leaves current_threshold,
\* threshold_history, metrics_history, adjustments, oscillation_count and
\* last_direction unchanged; a further call with the same metrics leaves the
\* state as the first call left it.
C13_StableIsIdempotent ==
    /\ []((Adjusted /\ determine_direction(call.metrics) = STABLE) =>
             /\ call.ret = NoAdjustment
             /\ call.post.converged
             /\ call.post.stop_reason = <<"Targets achieved">>
             /\ call.post.current_threshold = call.pre.current_threshold
             /\ call.post.threshold_history = call.pre.threshold_history
             /\ call.post.metrics_history = call.pre.metrics_history
             /\ call.post.adjustments = call.pre.adjustments
             /\ call.post.oscillation_count = call.pre.oscillation_count
             /\ call.post.last_direction = call.pre.last_direction)
    /\ [][(/\ Adjusted
           /\ determine_direction(call.metrics) = STABLE
           /\ call' # call
           /\ call'.kind = "adjust"
           /\ call'.key = call.key
           /\ call'.metrics = call.metrics)
              => /\ call'.ret = NoAdjustment
                 /\ call'.pre = call.post
                 /\ call'.post = call.post]_vars

\* a second STABLE call on a state the first one marked, after adjustments
C13_Witness ==
    /\ Adjusted
    /\ determine_direction(call.metrics) = STABLE
    /\ call.pre.converged
    /\ call.pre.stop_reason = <<"Targets achieved">>
    /\ call.pre.adjustments # <<>>
    /\ call.post = call.pre


\* C14: in a run, every entry of the tunable list has a TuningState of its
\* own: no two distinct entries are mapped to the same state record, two
\* entries of one stage with the same name included.
C14_OneStatePerTunableEntry ==
    pc \notin {"start", "api", "analyzer"} =>
        /\ \A i \in 1..Len(tunable) :
              has_state(states, tunable[i].stage, tunable[i].name)
        /\ \A i, j \in 1..Len(tunable) :
              i # j => state_key(tunable[i].stage, tunable[i].name)
                           # state_key(tunable[j].stage, tunable[j].name)


\* some guardrail received a non-STABLE adjustment in round it: a record of
\* that iteration is in its adjustments (only applied adjustments are)
AppliedInRound(it) ==
    \E k \in DOMAIN states :
       \E i \in 1..Len(states[k].adjustments) :
          /\ states[k].adjustments[i].iteration = it
          /\ states[k].adjustments[i].direction # STABLE

\* C15: the evaluator is invoked once before round 1 and at most once in
\* each round; in a round it is invoked only after the configuration of the
\* round was written and only if a guardrail received a non-STABLE
\* adjustment in the round; a round with such an adjustment goes on to the
\* evaluation and a round without one ends the loop with no evaluation; a
\* run invokes the evaluator at most 1 + max_iterations times.
C15_OneEvaluationPerAdjustingRound ==
    /\ [](/\ evals <= 1 + cfg.max_iterations
          /\ pc \in {"round", "eval"} => evals = iteration
          /\ pc \in {"results", "done"} => evals <= iteration + 1)
    /\ [][(evals' # evals /\ pc = "eval") =>
             /\ evals' = evals + 1
             /\ AppliedInRound(iteration)
             /\ saved # <<>>
             /\ saved[Len(saved)] = [file |-> "config_iter",
                                     iteration |-> iteration,
                                     config |-> current_config]]_vars
    /\ [][(pc = "round" /\ pc' # "round") =>
             /\ evals' = evals
             /\ IF AppliedInRound(iteration) THEN pc' = "eval"
                ELSE pc' = "results"]_vars
    /\ [][(pc = "eval" /\ pc' # "eval") => evals' = evals + 1]_vars

\* the evaluation of a second round
C15_Witness ==
    /\ pc \in {"round", "results"}
    /\ evals = 3
    /\ AppliedInRound(1)
    /\ AppliedInRound(2)


\* C16: provided every evaluation returns, a run with at least one tunable
\* guardrail terminates, after at most max_iterations rounds whatever the
\* metrics, and then holds exactly one TuningResult per tunable guardrail,
\* whose final_threshold and converged are the current_threshold and
\* converged of the guardrail's final state.
C16_RunTerminatesWithResults ==
    /\ [](pc # "error") => <>(pc = "done")
    /\ [](iteration <= cfg.max_iterations)
    /\ []((pc = "done" /\ tunable # <<>>) =>
             /\ Len(results) = Len(tunable)
             /\ \A i \in 1..Len(tunable) :
                   LET st == get_state(states, tunable[i].stage,
                                       tunable[i].name)
                   IN  /\ results[i].guardrail_name = tunable[i].name
                       /\ results[i].stage = tunable[i].stage
                       /\ results[i].final_threshold = st.current_threshold
                       /\ results[i].converged = st.converged)

\* a run that used its whole budget and moved a threshold
C16_Witness ==
    /\ pc = "done"
    /\ iteration = cfg.max_iterations
    /\ evals = 1 + cfg.max_iterations
    /\ \E i \in 1..Len(results) :
          /\ results[i].final_threshold # results[i].initial_threshold
          /\ ~results[i].converged



\* the loop was left by the break of line 340: a round adjusted nothing
EarlyStop ==
    /\ pc \in {"results", "done"}
    /\ tunable # <<>>
    /\ iteration >= 1
    /\ ~any_adjustments

\* C17: a TuningResult has the reason "Max iterations reached" if and only
\* if its guardrail was still unconverged when the budget of iterations was
\* used up, the loop having run all max_iterations rounds; a result made
\* after an early stop never has that reason.
C17_MaxIterationsOnlyAtBudget ==
    pc = "done" =>
        \A i \in 1..Len(results) :
           (results[i].reason = <<"Max iterations reached">>)
               <=> /\ ~results[i].converged
                   /\ iteration = cfg.max_iterations
                   /\ ~EarlyStop


\* C18: guardrails are tuned independently: a calculate_adjustment call in
\* a run, made for one entry of the tunable list, leaves the state of every
\* other entry as it was, and an entry that stopped in a round keeps no
\* other entry from its turn in that round: every other entry that is still
\* unconverged and has metrics gets its own call in the round.
C18_IndependentTuning ==
    /\ [][(call' # call /\ pc = "round") =>
             \A j \in 1..Len(tunable) :
                j # gi => get_state(states', tunable[j].stage, tunable[j].name)
                            = get_state(states, tunable[j].stage,
                                        tunable[j].name)]_vars
    /\ [][(InRound /\ gi' = gi + 1 /\ call' = call) =>
             LET st == get_state(states, tunable[gi].stage, tunable[gi].name)
             IN  \/ state_key(tunable[gi].stage, tunable[gi].name)
                        \notin DOMAIN current_metrics
                 \/ /\ st.converged
                    /\ \A i \in 1..Len(st.adjustments) :
                          st.adjustments[i].iteration < iteration
                    /\ ~(Adjusted /\ call.iteration = iteration
                            /\ call.key = state_key(tunable[gi].stage,
                                                    tunable[gi].name))]_vars


\* the histories of a state fit together
Chained(st) ==
    /\ Len(st.threshold_history) = Len(st.adjustments)
    /\ \A i \in 1..Len(st.adjustments) :
          /\ st.threshold_history[i] = st.adjustments[i].old_threshold
          /\ i < Len(st.adjustments)
                => st.adjustments[i + 1].old_threshold
                       = st.adjustments[i].new_threshold
    /\ st.adjustments # <<>>
          => st.adjustments[1].old_threshold = st.initial_threshold
    /\ st.current_threshold
           = IF st.adjustments = <<>> THEN st.initial_threshold
             ELSE st.adjustments[Len(st.adjustments)].new_threshold

\* C19: a calculate_adjustment call that applies an adjustment appends the
\* old threshold to threshold_history and the returned record to
\* adjustments and sets current_threshold to the new threshold and
\* last_direction to the direction; in every reachable state
\* threshold_history and adjustments have the same length,
\* threshold_history[i] is adjustments[i].old_threshold, each record starts
\* at the threshold the one before it ended at, the first at
\* initial_threshold, and current_threshold is the last new_threshold
\* (initial_threshold with no adjustments).
C19_HistoryChain ==
    /\ \A k \in DOMAIN states : Chained(states[k])
    /\ Applied =>
          /\ call.post.threshold_history
                 = Append(call.pre.threshold_history,
                          call.pre.current_threshold)
          /\ call.post.adjustments = Append(call.pre.adjustments, call.ret)
          /\ call.ret.old_threshold = call.pre.current_threshold
          /\ call.post.current_threshold = call.ret.new_threshold
          /\ call.post.last_direction = call.ret.direction
          /\ call.ret.direction = call.direction

\* a state with three applied adjustments, the last one a reversal
C19_Witness ==
    /\ Applied
    /\ Len(call.post.adjustments) = 3
    /\ call.post.adjustments[2].direction # call.post.adjustments[3].direction
    /\ call.post.current_threshold # call.post.initial_threshold


\* the call was made on a state that is not converged and, the call
\* included, has not oscillated
FirstDirectionCall ==
    /\ Adjusted
    /\ ~call.pre.converged
    /\ call.post.oscillation_count = 0

\* C20: for a state that is not converged and has not oscillated, when
\* precision is below its target by more than the tolerance and recall is
\* achieved, calculate_adjustment returns an INCREASE record with
\* new_threshold = round(min(max_threshold, current + step_size), 3) and a
\* reason citing precision; when recall is below its target by more than the
\* tolerance and precision is achieved, it returns a DECREASE record with
\* new_threshold = round(max(min_threshold, current - step_size), 3) and a
\* reason citing recall.
C20_SingleMetricAdjustment ==
    FirstDirectionCall =>
        LET pg == TableGapP(call.metrics)
            rg == TableGapR(call.metrics)
            tol == cfg.targets.tolerance
            cur == call.pre.current_threshold
        IN  /\ (pg > tol /\ rg <= tol) =>
                  /\ call.ret # NoAdjustment
                  /\ call.ret.direction = INCREASE
                  /\ \E tieUp \in BOOLEAN :
                        call.ret.new_threshold
                            = Round3(Min(cfg.max_threshold,
                                         cur + cfg.step_size), tieUp)
                  /\ call.ret.reason[1]
                         = "Precision below target, increasing threshold by"
            /\ (rg > tol /\ pg <= tol) =>
                  /\ call.ret # NoAdjustment
                  /\ call.ret.direction = DECREASE
                  /\ \E tieUp \in BOOLEAN :
                        call.ret.new_threshold
                            = Round3(Max(cfg.min_threshold,
                                         cur - cfg.step_size), tieUp)
                  /\ call.ret.reason[1]
                         = "Recall below target, decreasing threshold by"


\* the call now made follows, on the same state, a call that applied an
\* adjustment in direction d1, and its own direction is d2
Alternates(d1, d2) ==
    /\ Applied
    /\ call.direction = d1
    /\ call' # call
    /\ call'.kind = "adjust"
    /\ call'.key = call.key
    /\ call'.direction = d2
    /\ cfg.oscillation_limit > 2

\* C21: when the direction of three consecutive calculate_adjustment calls
\* on a state that has not oscillated before is INCREASE, DECREASE,
\* INCREASE, with oscillation_limit > 2 and no bound hit, oscillation_count
\* is 1 after the second call and 2 after the third, and the steps of the
\* three calls are step_size, max(min_step_size, step_size / 2) and
\* max(min_step_size, step_size / 4): the halving takes effect in the call
\* that detects the flip.
C21_AlternationHalvesStep ==
    /\ [][(Alternates(INCREASE, DECREASE)
              /\ call.post.oscillation_count = 0) =>
             /\ call.step = cfg.step_size
             /\ call'.post.oscillation_count = 1
             /\ call'.step = Max(cfg.min_step_size, cfg.step_size \div 2)]_vars
    /\ [][(Alternates(DECREASE, INCREASE)
              /\ call.pre.last_direction = INCREASE
              /\ call.pre.oscillation_count = 0) =>
             /\ call.post.oscillation_count = 1
             /\ call.step = Max(cfg.min_step_size, cfg.step_size \div 2)
             /\ call'.post.oscillation_count = 2
             /\ call'.step = Max(cfg.min_step_size, cfg.step_size \div 4)]_vars

\* the third call of INCREASE, DECREASE, INCREASE, all three applied
C21_Witness ==
    /\ Applied
    /\ cfg.oscillation_limit > 2
    /\ call.direction = INCREASE
    /\ call.post.oscillation_count = 2
    /\ Len(call.post.adjustments) = 3
    /\ call.post.adjustments[1].direction = INCREASE
    /\ call.post.adjustments[2].direction = DECREASE
    /\ call.iteration = 3
    /\ call.step = cfg.step_size \div 4
    /\ call.step > cfg.min_step_size


\* the round loop is past the last entry of tunable, or left
EndOfRound ==
    \/ pc = "round" /\ gi > Len(tunable)
    \/ pc \in {"eval", "results", "done"} /\ iteration >= 1

\* C22: a re-evaluation records one new metrics entry for every tunable
\* guardrail it reports, converged or not, and the histories stay aligned:
\* at the end of a round no tunable guardrail has more metrics_history
\* entries than evaluations were performed, and at the end of round 1 every
\* guardrail the initial evaluation reported has exactly one.
C22_MetricsHistoriesAligned ==
    /\ [][(pc = "eval" /\ pc' \in {"round", "results"}) =>
             \A i \in 1..Len(tunable) :
                LET key == state_key(tunable[i].stage, tunable[i].name)
                IN  /\ states'[key].current_threshold
                           = states[key].current_threshold
                    /\ states'[key].metrics_history
                           = IF key \in DOMAIN current_metrics'
                             THEN Append(states[key].metrics_history,
                                         current_metrics'[key])
                             ELSE states[key].metrics_history]_vars
    /\ [](EndOfRound =>
             \A i \in 1..Len(tunable) :
                LET key == state_key(tunable[i].stage, tunable[i].name)
                IN  /\ Len(states[key].metrics_history) <= evals
                    /\ (iteration = 1 /\ pc = "round"
                           /\ key \in DOMAIN current_metrics)
                          => Len(states[key].metrics_history) = evals)


\* the round is at an entry of tunable for which the latest evaluation
\* reported no metrics
AtEntryWithoutMetrics ==
    /\ InRound
    /\ state_key(tunable[gi].stage, tunable[gi].name)
           \notin DOMAIN current_metrics

\* C23: a tunable guardrail for which the latest evaluation reports no
\* metrics is skipped in the round without an error: the step leaves every
\* TuningState, the working configuration and any_adjustments as they are
\* and makes no calculate_adjustment call, the round goes on with the next
\* entry, and no adjustment of that round is recorded for the guardrail.
C23_NoMetricsSkips ==
    /\ [][AtEntryWithoutMetrics =>
             /\ states' = states
             /\ current_config' = current_config
             /\ any_adjustments' = any_adjustments
             /\ call' = call
             /\ pc' = "round"
             /\ gi' = gi + 1]_vars
    /\ [](pc = "round" =>
             \A i \in 1..Len(tunable) :
                LET key == state_key(tunable[i].stage, tunable[i].name)
                IN  key \notin DOMAIN current_metrics =>
                       \A n \in 1..Len(states[key].adjustments) :
                          states[key].adjustments[n].iteration < iteration)

\* a round that skipped its first guardrail for missing metrics and adjusted
\* its second
C23_Witness ==
    /\ pc = "round"
    /\ gi = 3
    /\ Len(tunable) = 2
    /\ state_key(tunable[1].stage, tunable[1].name)
           \notin DOMAIN current_metrics
    /\ ~get_state(states, tunable[1].stage, tunable[1].name).converged
    /\ Applied
    /\ call.key = state_key(tunable[2].stage, tunable[2].name)
    /\ call.iteration = iteration
    /\ any_adjustments


\* C24: when an evaluation, the initial one or a later one, produces no
\* metrics file, the run ends there with an error: the failing step changes
\* no state, configuration or saved file, and after it the evaluator is not
\* invoked again, no adjustment is computed and no TuningResult is produced.
C24_EvalFailureIsFatal ==
    /\ [][pc' = "error" =>
             /\ pc \in {"initial_eval", "eval"}
             /\ evals' = evals + 1
             /\ states' = states
             /\ current_config' = current_config
             /\ saved' = saved
             /\ results' = results
             /\ call' = call]_vars
    /\ [][pc # "error"]_vars
    /\ [](pc = "error" =>
             /\ results = <<>>
             /\ \A n \in 1..Len(saved) : saved[n].file # "eval_config_tuned")

\* the evaluation of round 1 failed after an adjustment
C24_Witness ==
    /\ pc = "error"
    /\ evals = 2
    /\ iteration = 1
    /\ Applied
    /\ any_adjustments


\* a configuration has been loaded
Loaded == pc \notin {"start", "api", "analyzer"}

\* C25: the only thing a run changes in the working configuration is the
\* confidence_threshold of tunable guardrails that received a non-STABLE
\* adjustment, written rounded to 3 decimals: the entries and their names
\* stay, an entry without a confidence_threshold and every other field stay
\* as loaded, a confidence_threshold differs from the loaded one only for a
\* guardrail with an applied adjustment, and the original configuration is
\* never modified.
C25_OnlyAdjustedThresholdsChange ==
    /\ [][Loaded => original_config' = original_config]_vars
    /\ [](Loaded =>
             \A n \in 1..Len(Stages) :
                LET stage == Stages[n]
                    was == original_config[stage]
                    now == current_config[stage]
                IN  /\ Len(now) = Len(was)
                    /\ \A i \in 1..Len(was) :
                          /\ now[i].name = was[i].name
                          /\ DOMAIN now[i].config = DOMAIN was[i].config
                          /\ \A f \in DOMAIN was[i].config :
                                f # "confidence_threshold"
                                   => now[i].config[f] = was[i].config[f]
                          /\ now[i].config # was[i].config =>
                                /\ has_state(states, stage, was[i].name)
                                /\ get_state(states, stage,
                                             was[i].name).adjustments # <<>>
                                /\ now[i].config.confidence_threshold % Q = 0)


\* where the entries of tunable sit in the loaded document: the entries with
\* a confidence_threshold, in the order of the stages
PositionsIn(doc, stage) ==
    LET idx == SelectSeq([i \in 1..Len(doc[stage]) |-> i],
                   LAMBDA i : "confidence_threshold"
                                  \in DOMAIN doc[stage][i].config)
    IN  [j \in 1..Len(idx) |-> [stage |-> stage, index |-> idx[j]]]

TunablePositions(doc) ==
    PositionsIn(doc, Stages[1]) \o PositionsIn(doc, Stages[2])
        \o PositionsIn(doc, Stages[3])

\* the confidence_threshold a document holds for entry i of tunable
ConfiguredThreshold(doc, i) ==
    LET p == TunablePositions(original_config)[i]
    IN  doc[p.stage][p.index].config.confidence_threshold

\* C26: at the end of every round and at loop exit, the
\* confidence_threshold of every tunable guardrail in the working
\* configuration equals current_threshold of the guardrail's TuningState,
\* so the tuned configuration saved at the end agrees with
\* TuningResult.final_threshold for every guardrail.
C26_ConfigAgreesWithState ==
    /\ EndOfRound =>
          /\ \A i \in 1..Len(tunable) :
                ConfiguredThreshold(current_config, i)
                    = get_state(states, tunable[i].stage,
                                tunable[i].name).current_threshold
    /\ (pc = "done" /\ tunable # <<>>) =>
          /\ saved[Len(saved)].file = "eval_config_tuned"
          /\ \A i \in 1..Len(results) :
                ConfiguredThreshold(saved[Len(saved)].config, i)
                    = results[i].final_threshold


\* C27: every record in a guardrail's adjustments moves the threshold in the
\* direction it names: new_threshold > old_threshold for INCREASE,
\* new_threshold < old_threshold for DECREASE, for every starting threshold
\* and configuration, and no record has direction STABLE or equal old and
\* new thresholds.
C27_RecordsMoveAsNamed ==
    \A k \in DOMAIN states :
       \A i \in 1..Len(states[k].adjustments) :
          LET a == states[k].adjustments[i]
          IN  /\ a.direction \in {INCREASE, DECREASE}
              /\ a.new_threshold # a.old_threshold
              /\ a.direction = INCREASE => a.new_threshold > a.old_threshold
              /\ a.direction = DECREASE => a.new_threshold < a.old_threshold


\* C28: in a run a guardrail's threshold is changed at most once per round:
\* the iteration numbers of the records in its adjustments are strictly
\* increasing, so the number of applied adjustments, TuningResult.iterations,
\* never exceeds the number of rounds run nor max_iterations.
C28_OneAdjustmentPerRound ==
    /\ \A k \in DOMAIN states :
          LET adj == states[k].adjustments
          IN  /\ \A i \in 1..Len(adj) :
                    i < Len(adj) => adj[i].iteration < adj[i + 1].iteration
              /\ Len(adj) <= iteration
              /\ Len(adj) <= cfg.max_iterations
    /\ \A i \in 1..Len(results) :
          /\ results[i].iterations = Len(results[i].adjustments)
          /\ results[i].iterations <= iteration
          /\ results[i].iterations <= cfg.max_iterations


\* C29: whatever the metrics, repeated calculate_adjustment calls on a state
\* that is not converged reach converged = true after finitely many calls:
\* a state that is not converged has counted fewer flips than
\* oscillation_limit, and the threshold of a state last moved up is at most
\* max_threshold, of one last moved down at least min_threshold, so that
\* every run of steps in one direction ends at a bound.
C29_TuningConverges ==
    /\ <>(\A k \in DOMAIN states : states[k].converged)
    /\ [](\A k \in DOMAIN states :
             LET st == states[k]
             IN  /\ ~st.converged
                    => st.oscillation_count < cfg.oscillation_limit
                 /\ st.last_direction = INCREASE
                    => st.current_threshold <= cfg.max_threshold
                 /\ st.last_direction = DECREASE
                    => st.current_threshold >= cfg.min_threshold)
    /\ [][\A k \in DOMAIN states :
             (~states[k].converged /\ ~states'[k].converged /\ call' # call)
                => \/ states'[k].oscillation_count
                          > states[k].oscillation_count
                   \/ /\ call'.direction = INCREASE
                      /\ states'[k].current_threshold
                             > states[k].current_threshold
                   \/ /\ call'.direction = DECREASE
                      /\ states'[k].current_threshold
                             < states[k].current_threshold
                   \/ states[k].last_direction = NoneVal]_vars

\* a state converged at a bound after a run of steps up, one flip, and a run
\* of steps down
C29_Witness ==
    /\ MarkedAtBounds
    /\ call.direction = DECREASE
    /\ call.pre.current_threshold = cfg.min_threshold
    /\ call.post.oscillation_count = 1
    /\ Len(call.post.adjustments) >= 10
    /\ call.post.adjustments[1].direction = INCREASE

============================================================================
